---------------------------- MODULE Spec2Model ----------------------------
(***************************************************************************)
(* UltraAIService (src/README.md, lines 834-1246): the provider streaming  *)
(* gateway.  One invocation of streamResponse, the upstream it talks to,   *)
(* and the callbacks it makes; and validateSettings as a pure function.    *)
(*                                                                         *)
(* Text is modelled as a sequence of atoms.  An atom is a run of           *)
(* characters the code never looks inside:                                 *)
(*   "\n"      the newline buffer.split('\n') cuts at                      *)
(*   " "       one whitespace character (what trim() removes)              *)
(*   "data:"   the five characters d a t a :                               *)
(*   "[DONE]"  the six characters of the sentinel payload                  *)
(*   "a", "b"  a JSON chunk {"choices":[{"delta":{"content":"a"}}]}, "b"   *)
(*   "n"       a JSON document without choices, e.g. {}                    *)
(*   "x"       text that is not JSON                                       *)
(* A chunk boundary falls between any two atoms, inside a line included.   *)
(***************************************************************************)
EXTENDS Integers, Sequences, FiniteSets, TLC

VARIABLES
    settings,   \* the settings object of the call
    pc,         \* where the invocation stands
    fetches,    \* upstream requests issued so far
    status,     \* HTTP status of the response (0: none yet)
    wire,       \* the bytes the upstream delivers before it ends the body
    ending,     \* how the upstream ended the body: "open" until it has
    pos,        \* bytes of wire handed out by reader.read() so far
    buffer,     \* let buffer (README.md:1015)
    calls,      \* the callbacks invoked, in order
    errors,     \* the list validateSettings returned
    cancel,     \* the caller's wish to cancel: "none", "requested", "passed"
    args,       \* the arguments of a call of one of the pure methods
    result,     \* what that call returned
    streams,    \* two concurrent invocations: the state of each
    service,    \* the fields of the UltraAIService instance
    ui,         \* the state of the PremiumChatInterface component
    server,     \* the state of a server process
    chat        \* a chat document

\* What an invocation of streamResponse leaves alone.
others == <<args, result, streams, service, ui, server, chat>>

vars ==
    <<settings, pc, fetches, status, wire, ending, pos, buffer, calls, errors,
      cancel, others>>

---------------------------------------------------------------------------
(* Bounds of the model. *)

\* Records (lines) in one upstream body.
MaxRecords == 3

---------------------------------------------------------------------------
(* The constructor's tables (README.md:835-882). *)

providers == {"openai", "anthropic", "cohere", "huggingface", "local"}

availableModels ==
    [openai |-> {"gpt-4", "gpt-4-32k", "gpt-4-turbo-preview", "gpt-3.5-turbo",
                 "gpt-3.5-turbo-16k", "gpt-4-vision-preview"},
     anthropic |-> {"claude-3-opus-20240229", "claude-3-sonnet-20240229",
                    "claude-2.1", "claude-instant-1.2"},
     cohere |-> {"command", "command-nightly", "command-light",
                 "command-light-nightly"},
     huggingface |-> {"mistralai/Mistral-7B-Instruct-v0.2", "google/flan-t5-xxl",
                      "microsoft/DialoGPT-large"}]

defaultSettings ==
    [provider |-> "openai", model |-> "gpt-3.5-turbo", temperature |-> 7,
     maxTokens |-> 2000]

\* The fields of the instance as the constructor leaves them.
Constructed ==
    [availableModels |-> availableModels, defaultSettings |-> defaultSettings]

\* The instance is as constructed, and no component, server process or chat
\* document is part of the run.
Elsewhere ==
    /\ service = Constructed
    /\ ui = <<>>
    /\ server = <<>>
    /\ chat = <<>>

---------------------------------------------------------------------------
(* Settings objects.  given is the set of properties the caller supplied;  *)
(* a property not in given reads as undefined.  Temperatures are in tenths *)
(* (25 is 2.5), so that the comparisons of validateSettings are integer    *)
(* comparisons.                                                            *)

Has(s, k) == k \in s.given

SettingsObject(g, p, m, t, k) ==
    [given |-> g,
     provider |-> IF "provider" \in g THEN p ELSE "",
     model |-> IF "model" \in g THEN m ELSE "",
     temperature |-> IF "temperature" \in g THEN t ELSE 0,
     maxTokens |-> IF "maxTokens" \in g THEN k ELSE 0]

\* settings.temperature && ..., settings.maxTokens && ...: a number is truthy
\* unless it is 0 (or absent).
TruthyNumber(s, k) == Has(s, k) /\ s[k] # 0

\* settings.model, settings.provider: a string is truthy unless it is ''.
TruthyString(s, k) == Has(s, k) /\ s[k] # ""

\* The bounds validateSettings compares with.
TemperatureMin == 0
TemperatureMax == 20
MaxTokensMin == 1
MaxTokensMax == 400000

\* settings.provider || this.defaultSettings.provider
ProviderOf(s) ==
    IF TruthyString(s, "provider") THEN s.provider ELSE defaultSettings.provider

validateSettings(s) ==
    (IF TruthyNumber(s, "temperature")
        /\ (s.temperature < TemperatureMin \/ s.temperature > TemperatureMax)
     THEN <<"Temperature must be between 0 and 2">> ELSE <<>>)
    \o
    (IF TruthyNumber(s, "maxTokens")
        /\ (s.maxTokens < MaxTokensMin \/ s.maxTokens > MaxTokensMax)
     THEN <<"Max tokens must be between 1 and 400,000">> ELSE <<>>)
    \o
    (IF TruthyString(s, "model")
        /\ ProviderOf(s) \in DOMAIN availableModels
        /\ s.model \notin availableModels[ProviderOf(s)]
     THEN <<"Model must be one of the provider's models">> ELSE <<>>)

---------------------------------------------------------------------------
(* Text helpers: what split, pop, trim, startsWith, slice and JSON.parse   *)
(* do to a sequence of atoms.                                              *)

NL == "\n"
SP == " "
Whitespace == {SP}

\* buffer.split('\n'): the pieces between newlines; '' gives [''].
RECURSIVE Split(_)
Split(s) ==
    IF \A i \in 1..Len(s) : s[i] # NL
    THEN <<s>>
    ELSE LET i == CHOOSE i \in 1..Len(s) :
                      s[i] = NL /\ \A j \in 1..(i - 1) : s[j] # NL
         IN <<SubSeq(s, 1, i - 1)>> \o Split(SubSeq(s, i + 1, Len(s)))

RECURSIVE TrimStart(_)
TrimStart(s) ==
    IF s # <<>> /\ Head(s) \in Whitespace THEN TrimStart(Tail(s)) ELSE s

RECURSIVE TrimEnd(_)
TrimEnd(s) ==
    IF s # <<>> /\ s[Len(s)] \in Whitespace
    THEN TrimEnd(SubSeq(s, 1, Len(s) - 1)) ELSE s

\* line.trim()
Trim(s) == TrimEnd(TrimStart(s))

\* The line 'data: [DONE]'.
SentinelLine == <<"data:", SP, "[DONE]">>

\* trimmedLine.startsWith('data: ')
StartsWithData(t) == Len(t) >= 2 /\ t[1] = "data:" /\ t[2] = SP

\* trimmedLine.slice(6)
Slice6(t) == SubSeq(t, 3, Len(t))

\* The JSON documents among the atoms, and the content delta each carries:
\* data.choices[0]?.delta?.content.  JSON.parse accepts whitespace around
\* the document and throws on anything else; a document without choices
\* makes data.choices[0] throw.  Both land in the catch at README.md:1041.
ContentOf == [a |-> "a", b |-> "b"]

ChunkOf(payload) ==
    LET doc == Trim(payload)
    IN IF Len(doc) = 1 /\ doc[1] \in DOMAIN ContentOf
       THEN <<ContentOf[doc[1]]>>
       ELSE <<>>

---------------------------------------------------------------------------
(* Callbacks, as entries of the call log. *)

OnChunk(text) == [cb |-> "onChunk", arg |-> text]
OnComplete == [cb |-> "onComplete", arg |-> "undefined"]
\* onError(error): error is new Error(message) or what fetch or read()
\* rejected with.  Nothing sets a retryable property on it: error.retryable
\* is undefined, which reads as false.
OnError(message) == [cb |-> "onError", arg |-> message, retryable |-> FALSE]

---------------------------------------------------------------------------
(* openAIStream's read loop (README.md:1017-1046). *)

\* One line of the for loop that does not end the stream: the onChunk call
\* it makes, if any.
LineCalls(t) ==
    IF StartsWithData(t)
    THEN LET chunk == ChunkOf(Slice6(t))
         IN IF chunk # <<>> THEN <<OnChunk(chunk[1])>> ELSE <<>>
    ELSE <<>>

\* if (trimmedLine === '' || trimmedLine === 'data: [DONE]')
EndsStream(t) == t = <<>> \/ t = SentinelLine

\* for (const line of lines) { ... }: the calls made, and whether the
\* function returned from inside the loop.
RECURSIVE ProcessLines(_)
ProcessLines(lines) ==
    IF lines = <<>>
    THEN [calls |-> <<>>, returned |-> FALSE]
    ELSE LET t == Trim(Head(lines))
         IN IF EndsStream(t)
            THEN [calls |-> <<OnComplete>>, returned |-> TRUE]
            ELSE LET r == ProcessLines(Tail(lines))
                 IN [calls |-> LineCalls(t) \o r.calls, returned |-> r.returned]

\* lines.pop() left out: the unfinished last line is handed to the loop too.
CompleteLinesNoPop(lines) == lines

\* The lines handed to the for loop: all but the last, which lines.pop()
\* took out.
CompleteLines(lines) == SubSeq(lines, 1, Len(lines) - 1)

\* The unfinished last line is not carried over to the next chunk.
NextBufferDropped(lines) == <<>>

\* buffer = lines.pop() || ''
NextBuffer(lines) == lines[Len(lines)]

\* One pass of the while loop over a chunk value: the new buffer, the calls
\* made, and whether the function returned.
Feed(buf, value) ==
    LET lines == Split(buf \o value)
        r == ProcessLines(CompleteLines(lines))
    IN [buffer |-> NextBuffer(lines), calls |-> r.calls, returned |-> r.returned]

---------------------------------------------------------------------------
(* The upstream: what fetch can answer, and the bodies a provider sends.   *)

\* HTTP statuses the upstream answers with.
Statuses == {200, 401, 429, 500, 503}

\* The status is not looked at.
ResponseOkUnchecked(s) == TRUE

\* response.ok
ResponseOk(s) == s >= 200 /\ s <= 299

\* `HTTP error! status: ${response.status}`
HttpErrorMessage(s) ==
    CASE s = 401 -> "HTTP error! status: 401"
      [] s = 429 -> "HTTP error! status: 429"
      [] s = 500 -> "HTTP error! status: 500"
      [] s = 503 -> "HTTP error! status: 503"
      [] OTHER -> "HTTP error! status: other"

\* The lines a body is made of: two content records, a record that is not
\* JSON, a record without choices, the sentinel, a blank separator line and
\* a line that is no data record.
Lines ==
    {<<"data:", SP, "a">>, <<"data:", SP, "b">>, <<"data:", SP, "x">>,
     <<"data:", SP, "n">>, SentinelLine, <<>>, <<"x">>}

\* The lines joined by newlines; the last one is followed by a newline when
\* terminated.
RECURSIVE Join(_, _)
Join(ls, terminated) ==
    IF ls = <<>> THEN <<>>
    ELSE IF Len(ls) = 1 /\ ~terminated THEN Head(ls)
    ELSE Head(ls) \o <<NL>> \o Join(Tail(ls), terminated)

\* Every body of at most MaxRecords lines.
Wires ==
    {Join(ls, t) : ls \in UNION {[1..k -> Lines] : k \in 0..MaxRecords},
                   t \in BOOLEAN}

---------------------------------------------------------------------------
(* The calls the model makes. *)

Keys == {"provider", "model", "temperature", "maxTokens"}

\* The settings streamResponse is called with.
StreamSettings ==
    {SettingsObject({}, "", "", 0, 0),
     SettingsObject(Keys, "openai", "gpt-4", 7, 2000),
     SettingsObject({"temperature"}, "", "", 25, 0),
     SettingsObject({"maxTokens"}, "", "", 0, 400001),
     SettingsObject({"provider", "model"}, "openai", "claude-2.1", 0, 0),
     SettingsObject({"provider"}, "anthropic", "", 0, 0),
     SettingsObject({"provider"}, "cohere", "", 0, 0),
     SettingsObject({"provider"}, "bogus", "", 0, 0)}

\* The settings validateSettings is called with.
AllSettings ==
    {SettingsObject(g, p, m, t, k) :
        g \in SUBSET Keys,
        p \in {"", "openai", "anthropic", "local", "bogus"},
        m \in {"", "gpt-4", "claude-2.1", "bogus-model"},
        t \in {-1, 0, 7, 20, 21, 25},
        k \in {-5, 0, 1, 2000, 400000, 400001}}

---------------------------------------------------------------------------
(* streamResponse (README.md:974-992).  The caller's callbacks return      *)
(* normally: a callback that throws is not part of this specification.     *)

\* The default branch hands the call to openAIStream.
RouteDefaultOpenAI(provider) ==
    IF provider = "anthropic" THEN "anthropicStream" ELSE "openAIStream"

\* The switch on provider: the routine the call is handed to.
Route(provider) ==
    CASE provider = "openai" -> "openAIStream"
      [] provider = "anthropic" -> "anthropicStream"
      [] OTHER -> "unsupported"

\* The routines the class defines; anthropicStream is not one of them, so
\* calling it throws a TypeError inside streamResponse's try.
DefinedRoutines == {"openAIStream"}

Init ==
    /\ settings \in StreamSettings
    /\ pc = "start"
    /\ fetches = 0
    /\ status = 0
    /\ wire = <<>>
    /\ ending = "open"
    /\ pos = 0
    /\ buffer = <<>>
    /\ calls = <<>>
    /\ errors = <<>>
    /\ cancel = "none"
    /\ args = <<>>
    /\ result = <<>>
    /\ streams = <<>>
    /\ Elsewhere

\* streamResponse up to its first await: the switch, and the catch for what
\* the switch throws.
StreamResponse ==
    /\ pc = "start"
    /\ LET routine == Route(ProviderOf(settings))
       IN IF routine = "unsupported"
          THEN /\ calls' = calls \o <<OnError("Streaming not supported for provider")>>
               /\ pc' = "done"
          ELSE IF routine \notin DefinedRoutines
          THEN /\ calls' = calls \o <<OnError("TypeError: not a function")>>
               /\ pc' = "done"
          ELSE /\ calls' = calls
               /\ pc' = "fetch"
    /\ UNCHANGED <<settings, fetches, status, wire, ending, pos, buffer, errors, cancel, others>>

---------------------------------------------------------------------------
(* openAIStream (README.md:994-1050). *)

\* await fetch(...) rejects: no response; the catch calls onError.
FetchRejects ==
    /\ pc = "fetch"
    /\ fetches' = fetches + 1
    /\ calls' = calls \o <<OnError("fetch failed")>>
    /\ pc' = "done"
    /\ UNCHANGED <<settings, status, wire, ending, pos, buffer, errors, cancel, others>>

\* await fetch(...) resolves with status s, and a body w if the status is
\* ok.  if (!response.ok) throw ...: the catch calls onError.
FetchResponds ==
    /\ pc = "fetch"
    /\ fetches' = fetches + 1
    /\ \E s \in Statuses :
        /\ status' = s
        /\ IF ResponseOk(s)
           THEN /\ wire' \in Wires
                /\ pc' = "reading"
                /\ calls' = calls
           ELSE /\ wire' = <<>>
                /\ pc' = "done"
                /\ calls' = calls \o <<OnError(HttpErrorMessage(s))>>
    /\ ending' = "open"
    /\ pos' = 0
    /\ buffer' = <<>>
    /\ UNCHANGED <<settings, errors, cancel, others>>

\* The caller's wish to cancel after one more pass of the while loop: the
\* pass that was in progress when the caller asked is over.  The loop reads
\* no flag, signal or handle.
AfterReadCycle(c) == IF c = "requested" THEN "passed" ELSE c

\* await reader.read() gives the next n bytes: one pass of the while loop.
ReadChunk ==
    /\ pc = "reading"
    /\ \E n \in 1..(Len(wire) - pos) :
        LET r == Feed(buffer, SubSeq(wire, pos + 1, pos + n))
        IN /\ buffer' = r.buffer
           /\ calls' = calls \o r.calls
           /\ pc' = IF r.returned THEN "done" ELSE "reading"
           /\ pos' = pos + n
    /\ cancel' = AfterReadCycle(cancel)
    /\ UNCHANGED <<settings, fetches, status, wire, ending, errors, others>>

\* The upstream closes the body after the last byte: await reader.read()
\* gives done, the loop breaks, and the function returns.
ReadDone ==
    /\ pc = "reading"
    /\ pos = Len(wire)
    /\ ending' = "close"
    /\ pc' = "done"
    /\ UNCHANGED <<settings, fetches, status, wire, pos, buffer, calls, errors, cancel, others>>

\* The connection breaks after the last byte: await reader.read() rejects,
\* and the catch calls onError.
ReadRejects ==
    /\ pc = "reading"
    /\ pos = Len(wire)
    /\ ending' = "error"
    /\ calls' = calls \o <<OnError("read failed")>>
    /\ pc' = "done"
    /\ UNCHANGED <<settings, fetches, status, wire, pos, buffer, errors, cancel, others>>

Next ==
    \/ StreamResponse
    \/ FetchRejects
    \/ FetchResponds
    \/ ReadChunk
    \/ ReadDone
    \/ ReadRejects

Spec == Init /\ [][Next]_vars

---------------------------------------------------------------------------
(* validateSettings called on its own (README.md:1198-1218). *)

InitValidate ==
    /\ settings \in AllSettings
    /\ pc = "start"
    /\ fetches = 0
    /\ status = 0
    /\ wire = <<>>
    /\ ending = "open"
    /\ pos = 0
    /\ buffer = <<>>
    /\ calls = <<>>
    /\ errors = <<>>
    /\ cancel = "none"
    /\ args = <<>>
    /\ result = <<>>
    /\ streams = <<>>
    /\ Elsewhere

ValidateSettings ==
    /\ pc = "start"
    /\ errors' = validateSettings(settings)
    /\ pc' = "validated"
    /\ UNCHANGED <<settings, fetches, status, wire, ending, pos, buffer, calls, cancel, others>>

NextValidate == ValidateSettings

SpecValidate == InitValidate /\ [][NextValidate]_vars

---------------------------------------------------------------------------
(* What the claims speak of. *)

\* The texts passed to onChunk, in call order.
RECURSIVE ChunkTexts(_)
ChunkTexts(cs) ==
    IF cs = <<>> THEN <<>>
    ELSE (IF Head(cs).cb = "onChunk" THEN <<Head(cs).arg>> ELSE <<>>)
         \o ChunkTexts(Tail(cs))

Delivered == ChunkTexts(calls)

\* The positions of the terminal callbacks in the call log.
TerminalCalls == {i \in 1..Len(calls) : calls[i].cb \in {"onComplete", "onError"}}

CallsOf(name) == {i \in 1..Len(calls) : calls[i].cb = name}

\* The bytes received from the upstream so far.
Received == SubSeq(wire, 1, pos)

\* The call reached openAIStream's read loop.
Streaming == pc \in {"reading", "done"} /\ ResponseOk(status)

RECURSIVE TrimAll(_)
TrimAll(ls) ==
    IF ls = <<>> THEN <<>> ELSE <<Trim(Head(ls))>> \o TrimAll(Tail(ls))

\* The records of a byte sequence: its lines, the last one included whether
\* or not a newline follows it.
RecordsOf(w) == TrimAll(Split(w))

\* The records of a byte sequence that a newline ends.
TerminatedRecordsOf(w) == TrimAll(CompleteLines(Split(w)))

\* A data record and the content delta it carries.
IsContentRecord(t) ==
    StartsWithData(t) /\ t # SentinelLine /\ ChunkOf(Slice6(t)) # <<>>

\* A data record whose payload is not valid JSON or has no choices.
IsMalformedRecord(t) ==
    StartsWithData(t) /\ t # SentinelLine /\ ChunkOf(Slice6(t)) = <<>>

\* The records before the first sentinel.
RECURSIVE BeforeSentinel(_)
BeforeSentinel(rs) ==
    IF rs = <<>> \/ Head(rs) = SentinelLine THEN <<>>
    ELSE <<Head(rs)>> \o BeforeSentinel(Tail(rs))

\* The content deltas of the records, in order.
RECURSIVE DeltasOf(_)
DeltasOf(rs) ==
    IF rs = <<>> THEN <<>>
    ELSE (IF IsContentRecord(Head(rs)) THEN ChunkOf(Slice6(Head(rs))) ELSE <<>>)
         \o DeltasOf(Tail(rs))

\* s is an in-order subsequence of t.
RECURSIVE IsSubseq(_, _)
IsSubseq(s, t) ==
    IF s = <<>> THEN TRUE
    ELSE IF t = <<>> THEN FALSE
    ELSE IF Head(s) = Head(t) THEN IsSubseq(Tail(s), Tail(t))
    ELSE IsSubseq(s, Tail(t))

\* The calls openAIStream makes when the body w arrives as one single chunk
\* and the upstream then ends it with e.
SingleChunkCalls(w, e) ==
    LET r == IF w = <<>>
             THEN [calls |-> <<>>, returned |-> FALSE]
             ELSE Feed(<<>>, w)
    IN r.calls \o (IF ~r.returned /\ e = "error"
                   THEN <<OnError("read failed")>> ELSE <<>>)

---------------------------------------------------------------------------
(* The claims. *)

\* C1: every invocation of streamResponse ends with exactly one terminal
\* callback, onComplete or onError, and no callback follows it.
C1_ExactlyOneTerminal ==
    /\ Cardinality(TerminalCalls) <= 1
    /\ TerminalCalls \subseteq {Len(calls)}
    /\ pc = "done" => Cardinality(TerminalCalls) = 1

\* C2: when an OpenAI response ends normally, the texts passed to onChunk,
\* concatenated in call order, are the content deltas of all the data
\* records the provider sent before the end of the stream, whatever the
\* separators between them and whether or not a newline follows the last.
\* (Every delta of the model is one atom, so the concatenations are equal
\* exactly when the sequences are.)
C2_DeliveredIsWhatWasSent ==
    (Streaming /\ pc = "done" /\ ending # "error")
        => Delivered = DeltasOf(BeforeSentinel(RecordsOf(wire)))

\* C3: the texts passed to onChunk are an in-order subsequence of the
\* content deltas received from the upstream: none twice, no two swapped.
C3_DeliveredInUpstreamOrder ==
    Streaming => IsSubseq(Delivered, DeltasOf(RecordsOf(Received)))

C3_Witness ==
    /\ pc = "reading"
    /\ Delivered = <<"b", "a">>
    /\ buffer # <<>>

\* C4: however the bytes are cut into chunks, the calls are those of the
\* same bytes arriving as one single chunk.
C4_ChunkBoundaryIndependence ==
    Streaming =>
        /\ calls = SingleChunkCalls(Received, ending)
        /\ pc = "done" => calls = SingleChunkCalls(wire, ending)

\* A chunk boundary inside a line, after a record has been delivered.
C4_Witness ==
    /\ pc = "reading"
    /\ Delivered = <<"a">>
    /\ buffer = <<"data:", SP>>

\* C5: the sentinel record ends the stream as complete and nothing after it
\* is delivered, and no other record ends the stream as complete.
C5_OnlySentinelCompletes ==
    Streaming =>
        /\ (\E i \in DOMAIN TerminatedRecordsOf(Received) :
                TerminatedRecordsOf(Received)[i] = SentinelLine)
            => /\ pc = "done"
               /\ calls # <<>>
               /\ calls[Len(calls)] = OnComplete
               /\ IsSubseq(Delivered,
                           DeltasOf(BeforeSentinel(TerminatedRecordsOf(Received))))
        /\ CallsOf("onComplete") # {}
            => \E i \in DOMAIN TerminatedRecordsOf(Received) :
                   TerminatedRecordsOf(Received)[i] = SentinelLine

\* C6: a malformed record that reaches a live stream (nothing before it has
\* ended the stream) is skipped: it causes no call, and every well-formed
\* record received after it (and before the sentinel) is still delivered
\* through onChunk, in order.
C6_MalformedRecordSkipped ==
    Streaming =>
        LET all == TerminatedRecordsOf(Received)
            rs == BeforeSentinel(all)
        IN /\ (\A i \in DOMAIN all : IsMalformedRecord(all[i]))
                => CallsOf("onChunk") \cup CallsOf("onComplete") = {}
           /\ \A i \in DOMAIN rs :
                (IsMalformedRecord(rs[i]) /\ \A j \in 1..(i - 1) : ~EndsStream(rs[j]))
                    => IsSubseq(DeltasOf(SubSeq(rs, i + 1, Len(rs))), Delivered)

\* The settings break a rule of validation: a supplied temperature outside
\* [0, 2], a supplied maxTokens outside [1, 400000], or a supplied model
\* that the selected provider's list does not hold.  (A model of '' and a
\* provider without a list are read in the code's favour: no violation.)
ViolatesValidation(s) ==
    \/ Has(s, "temperature")
        /\ (s.temperature < TemperatureMin \/ s.temperature > TemperatureMax)
    \/ Has(s, "maxTokens")
        /\ (s.maxTokens < MaxTokensMin \/ s.maxTokens > MaxTokensMax)
    \/ /\ TruthyString(s, "model")
       /\ ProviderOf(s) \in DOMAIN availableModels
       /\ s.model \notin availableModels[ProviderOf(s)]

\* C7: a call whose settings break validation issues no upstream request and
\* invokes neither onChunk nor onComplete.
C7_InvalidSettingsNeverFetch ==
    ViolatesValidation(settings)
        => /\ fetches = 0
           /\ CallsOf("onChunk") \cup CallsOf("onComplete") = {}
           /\ pc # "reading"

\* C8: validateSettings returns a non-empty list exactly when the settings
\* break a rule of validation.
C8_ValidateSettingsExact ==
    pc = "validated" => (errors # <<>> <=> ViolatesValidation(settings))

\* C9: a provider that is not a known provider makes no upstream request and
\* ends in exactly one onError, with no onChunk and no onComplete.
C9_UnknownProviderFailsLocally ==
    ProviderOf(settings) \notin providers
        => /\ fetches = 0
           /\ pc \in {"start", "done"}
           /\ CallsOf("onChunk") \cup CallsOf("onComplete") = {}
           /\ Cardinality(CallsOf("onError")) <= 1
           /\ pc = "done" => Cardinality(CallsOf("onError")) = 1

C9_Witness ==
    /\ pc = "done"
    /\ ProviderOf(settings) \notin providers
    /\ Len(calls) = 1
    /\ calls[1].cb = "onError"

\* C10: a 401 answer to the streaming request is not retried (one upstream
\* request), delivers no chunk, and is surfaced through exactly one onError.
C10_Unauthorized ==
    status = 401
        => /\ fetches = 1
           /\ pc = "done"
           /\ CallsOf("onChunk") \cup CallsOf("onComplete") = {}
           /\ Cardinality(CallsOf("onError")) = 1

C10_Witness ==
    /\ status = 401
    /\ pc = "done"
    /\ calls = <<OnError(HttpErrorMessage(401))>>

\* The messages of the failures that are not a rate limit.
OtherFailureMessages ==
    {HttpErrorMessage(s) : s \in Statuses \ {429}}
        \cup {"fetch failed", "read failed", "TypeError: not a function",
              "Streaming not supported for provider"}

\* C11: a 429 answer is surfaced at once as one failure that is marked
\* retryable and can be told apart from the other failures, and it is not
\* retried: one upstream request.
C11_RateLimitRetryable ==
    status = 429
        => /\ fetches = 1
           /\ pc = "done"
           /\ Cardinality(CallsOf("onError")) = 1
           /\ \A i \in CallsOf("onError") :
                /\ calls[i].retryable
                /\ calls[i].arg \notin OtherFailureMessages

\* The failures to open the upstream connection that count as transient:
\* the connection is refused or reset, or the upstream answers 5xx.
TransientOpenFailures ==
    {"fetch failed", HttpErrorMessage(500), HttpErrorMessage(503)}

\* C12: a transient failure to open the connection is retried, up to 3
\* attempts in all: a failure is surfaced only after the third attempt.
C12_TransientFailureRetried ==
    (\E i \in CallsOf("onError") : calls[i].arg \in TransientOpenFailures)
        => fetches = 3

\* C15: the completion event carries the finish reason and the final usage.
C15_CompletionCarriesUsage ==
    \A i \in CallsOf("onComplete") : calls[i].arg # "undefined"

---------------------------------------------------------------------------
(* streamResponse with callbacks that may throw.  A callback in the log    *)
(* has been invoked; the steps below are the invocation ending in a throw  *)
(* instead of a return.  An onChunk that throws is caught at               *)
(* README.md:1041 with the parse errors and changes nothing.               *)

\* The settings of the calls whose callbacks may throw.
ThrowSettings ==
    {SettingsObject({}, "", "", 0, 0),
     SettingsObject({"provider"}, "anthropic", "", 0, 0),
     SettingsObject({"provider"}, "bogus", "", 0, 0)}

InitThrow ==
    /\ settings \in ThrowSettings
    /\ pc = "start"
    /\ fetches = 0
    /\ status = 0
    /\ wire = <<>>
    /\ ending = "open"
    /\ pos = 0
    /\ buffer = <<>>
    /\ calls = <<>>
    /\ errors = <<>>
    /\ cancel = "none"
    /\ args = <<>>
    /\ result = <<>>
    /\ streams = <<>>
    /\ Elsewhere

\* The onError just invoked was invoked by openAIStream's catch
\* (README.md:1047-1049): the first onError of a call that reached
\* openAIStream.  Any other was invoked by streamResponse's catch (989-991).
InvokedByOpenAIStream ==
    /\ fetches >= 1
    /\ Cardinality({i \in 1..Len(calls) : calls[i].cb = "onError"}) = 1

\* onComplete() throws (README.md:1029): openAIStream's catch calls onError.
OnCompleteThrows ==
    /\ pc = "done"
    /\ calls # <<>>
    /\ calls[Len(calls)].cb = "onComplete"
    /\ calls' = calls \o <<OnError("thrown by onComplete")>>
    /\ UNCHANGED <<settings, pc, fetches, status, wire, ending, pos, buffer,
                   errors, cancel, others>>

\* onError(error) throws.  Out of openAIStream's catch the exception leaves
\* openAIStream and streamResponse's catch calls onError again; out of
\* streamResponse's catch it leaves streamResponse: the promise is rejected.
OnErrorThrows ==
    /\ pc = "done"
    /\ calls # <<>>
    /\ calls[Len(calls)].cb = "onError"
    /\ IF InvokedByOpenAIStream
       THEN /\ calls' = calls \o <<OnError("thrown by onError")>>
            /\ pc' = "done"
       ELSE /\ calls' = calls
            /\ pc' = "rejected"
    /\ UNCHANGED <<settings, fetches, status, wire, ending, pos, buffer,
                   errors, cancel, others>>

NextThrow ==
    \/ StreamResponse
    \/ FetchRejects
    \/ FetchResponds
    \/ ReadChunk
    \/ ReadDone
    \/ ReadRejects
    \/ OnCompleteThrows
    \/ OnErrorThrows

SpecThrow == InitThrow /\ [][NextThrow]_vars

\* The call met a failure: no routine for the provider, no response, a
\* status that is not ok, a read that failed, or a callback that threw.
MetFailure ==
    \/ Route(ProviderOf(settings)) \notin DefinedRoutines
    \/ fetches >= 1 /\ status = 0
    \/ status # 0 /\ ~ResponseOk(status)
    \/ ending = "error"
    \/ \E i \in 1..(Len(calls) - 1) : calls[i].cb \in {"onComplete", "onError"}

\* C13: streamResponse never returns a rejected promise, and every failure
\* path ends in exactly one onError.
C13_NeverRejectsOneOnError ==
    /\ pc # "rejected"
    /\ Cardinality(CallsOf("onError")) <= 1
    /\ (pc = "done" /\ MetFailure) => Cardinality(CallsOf("onError")) = 1

---------------------------------------------------------------------------
(* A caller that wants to cancel an in-flight stream.  streamResponse      *)
(* returns a promise of undefined and takes no signal (README.md:974-976), *)
(* fetch is given none (996-1007) and the loop reads no flag (1017-1019):  *)
(* the caller's wish changes nothing in the invocation.                    *)

InitCancel ==
    /\ settings = SettingsObject({}, "", "", 0, 0)
    /\ pc = "start"
    /\ fetches = 0
    /\ status = 0
    /\ wire = <<>>
    /\ ending = "open"
    /\ pos = 0
    /\ buffer = <<>>
    /\ calls = <<>>
    /\ errors = <<>>
    /\ cancel = "none"
    /\ args = <<>>
    /\ result = <<>>
    /\ streams = <<>>
    /\ Elsewhere

\* The caller decides to cancel the stream in flight.
Cancel ==
    /\ pc \in {"fetch", "reading"}
    /\ cancel = "none"
    /\ cancel' = "requested"
    /\ UNCHANGED <<settings, pc, fetches, status, wire, ending, pos, buffer,
                   calls, errors, others>>

NextCancel ==
    \/ StreamResponse
    \/ FetchRejects
    \/ FetchResponds
    \/ ReadChunk
    \/ ReadDone
    \/ ReadRejects
    \/ Cancel

SpecCancel == InitCancel /\ [][NextCancel]_vars

\* C14: once the caller has cancelled and the read cycle then in progress is
\* over, nothing more is read from the upstream and no onChunk is invoked;
\* the chunks delivered before stay as they were.
C14_CancelStopsStream ==
    [][cancel = "passed"
        => /\ pos' = pos
           /\ ChunkTexts(calls') = ChunkTexts(calls)]_vars

---------------------------------------------------------------------------
(* The pure methods, each called on its own: args holds the arguments and  *)
(* result what the call returned.                                          *)

\* What a call of a pure method leaves alone.
streamVars ==
    <<settings, fetches, status, wire, ending, pos, buffer, calls, errors,
      cancel, streams, service, ui, server, chat>>

\* No stream is in flight.
NoStream ==
    /\ settings = SettingsObject({}, "", "", 0, 0)
    /\ fetches = 0
    /\ status = 0
    /\ wire = <<>>
    /\ ending = "open"
    /\ pos = 0
    /\ buffer = <<>>
    /\ calls = <<>>
    /\ errors = <<>>
    /\ cancel = "none"
    /\ streams = <<>>

---------------------------------------------------------------------------
(* estimateCost (README.md:1221-1243).  A rate is in millionths of a       *)
(* dollar per 1000 tokens (0.0015 is 1500), so tokens * rate is the cost   *)
(* (tokens / 1000) * rate in billionths of a dollar, without rounding.     *)

costRates ==
    [openai |->
        [gpt4 |-> [input |-> 30000, output |-> 60000],
         gpt432k |-> [input |-> 60000, output |-> 120000],
         gpt35turbo |-> [input |-> 1500, output |-> 2000],
         gpt35turbo16k |-> [input |-> 3000, output |-> 4000]],
     anthropic |->
        [claude3opus |-> [input |-> 15000, output |-> 75000],
         claude3sonnet |-> [input |-> 3000, output |-> 15000],
         claude21 |-> [input |-> 8000, output |-> 24000]]]

\* The key of costRates[provider] a model identifier selects, if any.
RateKey(model) ==
    CASE model = "gpt-4" -> "gpt4"
      [] model = "gpt-4-32k" -> "gpt432k"
      [] model = "gpt-3.5-turbo" -> "gpt35turbo"
      [] model = "gpt-3.5-turbo-16k" -> "gpt35turbo16k"
      [] model = "claude-3-opus" -> "claude3opus"
      [] model = "claude-3-sonnet" -> "claude3sonnet"
      [] model = "claude-2.1" -> "claude21"
      [] OTHER -> "none"

\* costRates[provider]?.[model]; the empty sequence for undefined.
RatesOf(provider, model) ==
    IF provider \in DOMAIN costRates
       /\ RateKey(model) \in DOMAIN costRates[provider]
    THEN <<costRates[provider][RateKey(model)]>>
    ELSE <<>>

\* The input and output rates are taken for each other.
estimateCostSwapped(provider, model, inputTokens, outputTokens) ==
    LET rates == RatesOf(provider, model)
    IN IF rates = <<>> THEN 0
       ELSE inputTokens * rates[1].output + outputTokens * rates[1].input

\* A model without a rate is charged at the rate of gpt-4.
estimateCostDefaultRate(provider, model, inputTokens, outputTokens) ==
    LET rates == IF RatesOf(provider, model) = <<>>
                 THEN RatesOf("openai", "gpt-4")
                 ELSE RatesOf(provider, model)
    IN inputTokens * rates[1].input + outputTokens * rates[1].output

estimateCost(provider, model, inputTokens, outputTokens) ==
    LET rates == RatesOf(provider, model)
    IN IF rates = <<>> THEN 0
       ELSE inputTokens * rates[1].input + outputTokens * rates[1].output

\* The arguments estimateCost is called with.
CostArgs ==
    [provider : {"openai", "anthropic", "cohere", "bogus"},
     model : {"gpt-4", "gpt-3.5-turbo", "gpt-4-turbo-preview", "claude-2.1",
              "claude-3-opus-20240229", "bogus-model"},
     inputTokens : {0, 1, 1000, 2000},
     outputTokens : {0, 1, 500}]

InitCost ==
    /\ NoStream
    /\ Elsewhere
    /\ pc = "start"
    /\ args \in CostArgs
    /\ result = 0

EstimateCost ==
    /\ pc = "start"
    /\ result' = estimateCost(args.provider, args.model, args.inputTokens,
                              args.outputTokens)
    /\ pc' = "returned"
    /\ UNCHANGED <<args, streamVars>>

NextCost == EstimateCost

SpecCost == InitCost /\ [][NextCost]_vars

\* The call the specification works out: 1000 prompt tokens and 500
\* completion tokens on gpt-3.5-turbo.
WorkedCostExample ==
    [provider |-> "openai", model |-> "gpt-3.5-turbo",
     inputTokens |-> 1000, outputTokens |-> 500]

\* C16: for a provider and model with a rate entry, estimateCost is
\* (inputTokens / 1000) * inputRate + (outputTokens / 1000) * outputRate; 1000
\* prompt and 500 completion tokens on gpt-3.5-turbo cost 0.0025 dollars
\* (2500000 billionths).
C16_CostIsRateTimesTokens ==
    pc = "returned" =>
        /\ RatesOf(args.provider, args.model) # <<>> =>
              result = args.inputTokens
                         * costRates[args.provider][RateKey(args.model)].input
                       + args.outputTokens
                         * costRates[args.provider][RateKey(args.model)].output
        /\ args = WorkedCostExample => result = 2500000

C16_Witness ==
    /\ pc = "returned"
    /\ args = WorkedCostExample
    /\ result = 2500000

\* C17: estimateCost returns 0, and never anything else, when the provider
\* has no rate table or the model has no rate under that provider.
C17_UnknownRateCostsNothing ==
    pc = "returned"
        /\ (\/ args.provider \notin DOMAIN costRates
            \/ RateKey(args.model) \notin DOMAIN costRates[args.provider])
    => result = 0

C17_Witness ==
    /\ pc = "returned"
    /\ \/ args.provider = "cohere" /\ args.model = "gpt-4"
       \/ args.provider = "openai" /\ args.model = "gpt-4-turbo-preview"
    /\ args.inputTokens = 2000
    /\ args.outputTokens = 500
    /\ result = 0

---------------------------------------------------------------------------
(* estimateTokens (README.md:1184-1189).                                   *)

\* The longest text estimateTokens is called with.
MaxChars == 4

\* What \s matches.
RegexSpace == {SP, NL}

\* text.split(/\s+/): the pieces between maximal runs of whitespace; a run
\* at either end leaves an empty piece there, and '' gives [''].
RECURSIVE SplitSpace(_)
SplitSpace(s) ==
    IF \A i \in 1..Len(s) : s[i] \notin RegexSpace
    THEN <<s>>
    ELSE LET i == CHOOSE i \in 1..Len(s) :
                      s[i] \in RegexSpace
                      /\ \A j \in 1..(i - 1) : s[j] \notin RegexSpace
             k == CHOOSE k \in i..Len(s) :
                      /\ \A j \in i..k : s[j] \in RegexSpace
                      /\ k = Len(s) \/ s[k + 1] \notin RegexSpace
         IN <<SubSeq(s, 1, i - 1)>> \o SplitSpace(SubSeq(s, k + 1, Len(s)))

\* Math.ceil(n / d) for a non-negative n.
Ceil(n, d) == (n + d - 1) \div d

\* (words * 1.3 + characters / 4) / 2 is (26 * words + 5 * characters) / 40.
estimateTokens(text) ==
    LET words == Len(SplitSpace(text))
        characters == Len(text)
    IN Ceil(26 * words + 5 * characters, 40)

\* The texts estimateTokens is called with.
Texts ==
    UNION {[1..n -> {SP, NL, "a", "b"}] : n \in 0..MaxChars}

InitTokens ==
    /\ NoStream
    /\ Elsewhere
    /\ pc = "start"
    /\ args \in Texts
    /\ result = 0

EstimateTokens ==
    /\ pc = "start"
    /\ result' = estimateTokens(args)
    /\ pc' = "returned"
    /\ UNCHANGED <<args, streamVars>>

NextTokens == EstimateTokens

SpecTokens == InitTokens /\ [][NextTokens]_vars

\* The number of whitespace-separated words of a text: the places where a
\* word starts.
WordCount(text) ==
    Cardinality({i \in 1..Len(text) :
                    /\ text[i] \notin RegexSpace
                    /\ i = 1 \/ text[i - 1] \in RegexSpace})

\* C18: estimateTokens(text) is ceil((wordCount * 1.3 + charCount / 4) / 2),
\* wordCount being the number of whitespace-separated words (0 for an empty
\* or all-whitespace text, whatever whitespace leads or trails).
C18_TokensFromWordsAndChars ==
    pc = "returned" =>
        result = Ceil(26 * WordCount(args) + 5 * Len(args), 40)

---------------------------------------------------------------------------
(* formatMessagesForOpenAI and formatMessagesForAnthropic                  *)
(* (README.md:1146-1158).                                                  *)

\* The longest conversation the formatters are called with.
MaxMessages == 2

\* A message of the conversation; id stands for the properties besides role
\* and content, which the formatters leave out.
Messages ==
    [role : {"user", "assistant", "system", "tool"},
     content : {"a", "b"},
     id : {"m"}]

Conversations ==
    UNION {[1..n -> Messages] : n \in 0..MaxMessages}

\* The system role is passed through.
AnthropicRoleSystemKept(role) ==
    IF role \in {"assistant", "system"} THEN role ELSE "user"

\* msg.role === 'assistant' ? 'assistant' : 'user'
AnthropicRole(role) ==
    IF role = "assistant" THEN "assistant" ELSE "user"

formatMessagesForOpenAI(messages) ==
    [i \in 1..Len(messages) |->
        [role |-> messages[i].role, content |-> messages[i].content]]

formatMessagesForAnthropic(messages) ==
    [i \in 1..Len(messages) |->
        [role |-> AnthropicRole(messages[i].role),
         content |-> messages[i].content]]

InitFormat ==
    /\ NoStream
    /\ Elsewhere
    /\ pc = "start"
    /\ args \in [method : {"formatMessagesForOpenAI",
                           "formatMessagesForAnthropic"},
                 messages : Conversations]
    /\ result = <<>>

FormatMessagesForOpenAI ==
    /\ pc = "start"
    /\ args.method = "formatMessagesForOpenAI"
    /\ result' = formatMessagesForOpenAI(args.messages)
    /\ pc' = "returned"
    /\ UNCHANGED <<args, streamVars>>

FormatMessagesForAnthropic ==
    /\ pc = "start"
    /\ args.method = "formatMessagesForAnthropic"
    /\ result' = formatMessagesForAnthropic(args.messages)
    /\ pc' = "returned"
    /\ UNCHANGED <<args, streamVars>>

NextFormat == FormatMessagesForOpenAI \/ FormatMessagesForAnthropic

SpecFormat == InitFormat /\ [][NextFormat]_vars

\* C19: both formatters return as many messages as they were given, in the
\* same order and with every content unchanged; the OpenAI form keeps each
\* role, the Anthropic form keeps 'assistant' and turns every other role
\* into 'user'.
C19_FormatKeepsOrderAndFoldsRoles ==
    pc = "returned" =>
        /\ Len(result) = Len(args.messages)
        /\ \A i \in 1..Len(args.messages) :
              /\ result[i].content = args.messages[i].content
              /\ args.method = "formatMessagesForOpenAI"
                    => result[i].role = args.messages[i].role
              /\ args.method = "formatMessagesForAnthropic"
                    => /\ args.messages[i].role = "assistant"
                          => result[i].role = "assistant"
                       /\ args.messages[i].role \in {"user", "system", "tool"}
                          => result[i].role = "user"

C19_Witness ==
    /\ pc = "returned"
    /\ args.method = "formatMessagesForAnthropic"
    /\ Len(args.messages) = 2
    /\ args.messages[1].role = "system"
    /\ args.messages[1].content = "a"
    /\ args.messages[2].role = "assistant"
    /\ args.messages[2].content = "b"
    /\ result = <<[role |-> "user", content |-> "a"],
                  [role |-> "assistant", content |-> "b"]>>

---------------------------------------------------------------------------
(* Two streamResponse invocations on the one exported instance             *)
(* (README.md:1246), both routed to openAIStream and answered with status  *)
(* 200.  reader, decoder and buffer are locals of openAIStream             *)
(* (README.md:1013-1015), so each invocation has its own; the instance's   *)
(* fields are only read.  streams[i] is the state of invocation i.         *)

\* The longest body an invocation of the pair is sent, in lines.
MaxRecordsTwo == 1

Invocations == {1, 2}

\* The bodies the two invocations are sent.
WiresTwo ==
    {Join(ls, t) : ls \in UNION {[1..k -> Lines] : k \in 0..MaxRecordsTwo},
                   t \in BOOLEAN}

\* buffer is a field of the shared instance: every invocation reads the one
\* the first invocation writes.
BufferOfShared(ss, i) == ss[1].buffer

\* The buffer invocation i reads: the local of its own openAIStream call.
BufferOf(ss, i) == ss[i].buffer

\* The variables of the single invocation, at rest while the pair runs.
stillVars ==
    <<settings, fetches, status, wire, ending, pos, buffer, calls, errors,
      cancel, service, ui, server, chat>>

InitTwo ==
    /\ settings = SettingsObject({"provider"}, "openai", "", 0, 0)
    /\ fetches = 0
    /\ status = 0
    /\ wire = <<>>
    /\ ending = "open"
    /\ pos = 0
    /\ buffer = <<>>
    /\ calls = <<>>
    /\ errors = <<>>
    /\ cancel = "none"
    /\ pc = "start"
    /\ args = <<>>
    /\ result = <<>>
    /\ streams = [i \in Invocations |->
                    [pc |-> "fetch", wire |-> <<>>, pos |-> 0,
                     buffer |-> <<>>, calls |-> <<>>, ending |-> "open"]]
    /\ Elsewhere

\* Invocation i: await fetch(...) resolves with status 200 and a body.
FetchRespondsTwo(i) ==
    /\ streams[i].pc = "fetch"
    /\ \E w \in WiresTwo :
        streams' = [streams EXCEPT ![i].wire = w, ![i].pc = "reading"]
    /\ UNCHANGED <<pc, args, result, stillVars>>

\* Invocation i: await reader.read() gives the next n bytes of its body.
ReadChunkTwo(i) ==
    /\ streams[i].pc = "reading"
    /\ \E n \in 1..(Len(streams[i].wire) - streams[i].pos) :
        LET r == Feed(BufferOf(streams, i),
                      SubSeq(streams[i].wire, streams[i].pos + 1,
                             streams[i].pos + n))
        IN streams' = [streams EXCEPT
                          ![i].buffer = r.buffer,
                          ![i].calls = streams[i].calls \o r.calls,
                          ![i].pc = IF r.returned THEN "done" ELSE "reading",
                          ![i].pos = streams[i].pos + n]
    /\ UNCHANGED <<pc, args, result, stillVars>>

\* Invocation i: its upstream closes the body after the last byte.
ReadDoneTwo(i) ==
    /\ streams[i].pc = "reading"
    /\ streams[i].pos = Len(streams[i].wire)
    /\ streams' = [streams EXCEPT ![i].ending = "close", ![i].pc = "done"]
    /\ UNCHANGED <<pc, args, result, stillVars>>

\* Invocation i: its connection breaks after the last byte.
ReadRejectsTwo(i) ==
    /\ streams[i].pc = "reading"
    /\ streams[i].pos = Len(streams[i].wire)
    /\ streams' = [streams EXCEPT
                      ![i].ending = "error",
                      ![i].calls = streams[i].calls
                                     \o <<OnError("read failed")>>,
                      ![i].pc = "done"]
    /\ UNCHANGED <<pc, args, result, stillVars>>

NextTwo ==
    \E i \in Invocations :
        \/ FetchRespondsTwo(i)
        \/ ReadChunkTwo(i)
        \/ ReadDoneTwo(i)
        \/ ReadRejectsTwo(i)

SpecTwo == InitTwo /\ [][NextTwo]_vars

\* The bytes invocation i has received.
ReceivedBy(i) == SubSeq(streams[i].wire, 1, streams[i].pos)

\* The last, unfinished line of a text.
UnfinishedLine(w) == Split(w)[Len(Split(w))]

\* C20: whatever the order in which the reads of two concurrent invocations
\* interleave, each makes the calls it makes when run alone on the bytes it
\* received, and holds in its buffer the unfinished line of its own bytes.
C20_InvocationsIndependent ==
    \A i \in Invocations :
        /\ streams[i].calls
              = SingleChunkCalls(ReceivedBy(i), streams[i].ending)
        /\ streams[i].pc = "reading"
              => streams[i].buffer = UnfinishedLine(ReceivedBy(i))

\* One invocation has delivered a record and waits for its next read while
\* the other is in the middle of a record.
C20_Witness ==
    /\ streams[1].pc = "reading"
    /\ streams[1].calls = <<OnChunk("a")>>
    /\ streams[2].pc = "reading"
    /\ streams[2].buffer = <<"data:", SP>>
    /\ streams[2].wire = <<"data:", SP, "b", NL>>

---------------------------------------------------------------------------
(* The operations of the UltraAIService instance called one after another  *)
(* in any order (README.md:834-1246); service holds this.availableModels   *)
(* and this.defaultSettings.  args is the last call, result what it        *)
(* returned or threw.  streamResponse is taken as a whole here; its steps  *)
(* are those of Spec.                                                      *)

\* The operations run so far in a sequence of calls are counted up to here.
MaxCalls == 2

\* { ...this.defaultSettings, ...settings }: the properties the caller gave
\* over the defaults.
Spread(defaults, s) ==
    [k \in DOMAIN defaults |-> IF Has(s, k) THEN s[k] ELSE defaults[k]]

\* The settings are merged into this.defaultSettings itself.
AfterSpreadInPlace(defaults, merged) == merged

\* this.defaultSettings after the spread: the object literal is a new
\* object, so the defaults are as before.
AfterSpread(defaults, merged) == defaults

\* The request routines the class defines; cohereRequest,
\* huggingFaceRequest and localRequest are called but not defined.
DefinedRequests == {"openai", "anthropic"}

\* How generateResponse can end for a provider: the routine's answer, or
\* the error handleProviderError makes of what was thrown.
Outcomes(provider) ==
    IF provider \in DefinedRequests
    THEN {"response", "throws: provider error"}
    ELSE {"throws: Error configuring request"}

\* getAvailableModels(provider): the provider's list, [] for an unknown
\* provider, the whole table for null.
getAvailableModels(table, provider) ==
    IF provider = "null" THEN <<"table", table>>
    ELSE IF provider \in DOMAIN table THEN <<"list", table[provider]>>
    ELSE <<"list", {}>>

InitService ==
    /\ NoStream
    /\ pc = "idle"
    /\ args = [method |-> "constructor", count |-> 0]
    /\ result = <<>>
    /\ service = Constructed
    /\ ui = <<>>
    /\ server = <<>>
    /\ chat = <<>>

\* What a call of an operation leaves alone besides the instance.
serviceFrame ==
    <<settings, pc, fetches, status, wire, ending, pos, buffer, calls, errors,
      cancel, streams, ui, server, chat>>

\* The number of the next call.
NextCount == args.count + 1

GenerateResponse ==
    /\ pc = "idle"
    /\ args.count < MaxCalls
    /\ \E s \in StreamSettings :
        LET finalSettings == Spread(service.defaultSettings, s)
        IN /\ args' = [method |-> "generateResponse", settings |-> s,
                       count |-> NextCount]
           /\ \E o \in Outcomes(finalSettings.provider) :
                result' = <<finalSettings, o>>
           /\ service' = [service EXCEPT
                            !.defaultSettings =
                                AfterSpread(service.defaultSettings,
                                            finalSettings)]
    /\ UNCHANGED serviceFrame

StreamResponseCall ==
    /\ pc = "idle"
    /\ args.count < MaxCalls
    /\ \E s \in StreamSettings :
        /\ args' = [method |-> "streamResponse", settings |-> s,
                    count |-> NextCount]
        /\ result' = Route(ProviderOf(s))
    /\ UNCHANGED <<service, serviceFrame>>

ValidateSettingsCall ==
    /\ pc = "idle"
    /\ args.count < MaxCalls
    /\ \E s \in StreamSettings :
        /\ args' = [method |-> "validateSettings", settings |-> s,
                    count |-> NextCount]
        /\ result' = validateSettings(s)
    /\ UNCHANGED <<service, serviceFrame>>

EstimateCostCall ==
    /\ pc = "idle"
    /\ args.count < MaxCalls
    /\ \E a \in {c \in CostArgs : c.inputTokens = 1000 /\ c.outputTokens = 500} :
        /\ args' = [method |-> "estimateCost", cost |-> a, count |-> NextCount]
        /\ result' = estimateCost(a.provider, a.model, a.inputTokens,
                                  a.outputTokens)
    /\ UNCHANGED <<service, serviceFrame>>

EstimateTokensCall ==
    /\ pc = "idle"
    /\ args.count < MaxCalls
    /\ \E t \in {<<>>, <<"a">>, <<"a", SP, "b">>} :
        /\ args' = [method |-> "estimateTokens", text |-> t,
                    count |-> NextCount]
        /\ result' = estimateTokens(t)
    /\ UNCHANGED <<service, serviceFrame>>

GetAvailableModels ==
    /\ pc = "idle"
    /\ args.count < MaxCalls
    /\ \E p \in {"null", "openai", "anthropic", "local", "bogus"} :
        /\ args' = [method |-> "getAvailableModels", provider |-> p,
                    count |-> NextCount]
        /\ result' = getAvailableModels(service.availableModels, p)
    /\ UNCHANGED <<service, serviceFrame>>

FormatMessagesCall ==
    /\ pc = "idle"
    /\ args.count < MaxCalls
    /\ \E ms \in {c \in Conversations : Len(c) = 1} :
        /\ \/ /\ args' = [method |-> "formatMessagesForOpenAI",
                          messages |-> ms, count |-> NextCount]
              /\ result' = formatMessagesForOpenAI(ms)
           \/ /\ args' = [method |-> "formatMessagesForAnthropic",
                          messages |-> ms, count |-> NextCount]
              /\ result' = formatMessagesForAnthropic(ms)
    /\ UNCHANGED <<service, serviceFrame>>

NextService ==
    \/ GenerateResponse
    \/ StreamResponseCall
    \/ ValidateSettingsCall
    \/ EstimateCostCall
    \/ EstimateTokensCall
    \/ GetAvailableModels
    \/ FormatMessagesCall

SpecService == InitService /\ [][NextService]_vars

\* C21: after any sequence of calls of the operations, with any settings,
\* availableModels and defaultSettings are as the constructor made them.
C21_TablesNeverChange ==
    /\ service.availableModels = availableModels
    /\ service.defaultSettings = defaultSettings

\* generateResponse has been called with settings that override every
\* default, after another call.
C21_Witness ==
    /\ args.method = "generateResponse"
    /\ args.count = 2
    /\ args.settings = SettingsObject(Keys, "openai", "gpt-4", 7, 2000)
    /\ result[1].model = "gpt-4"
    /\ service = Constructed

---------------------------------------------------------------------------
(* PremiumChatInterface: sending a message (unnamed/part_001:122-175,      *)
(* 565, 688-724).  ui holds the component's state: message (the textarea), *)
(* attachments (their number), uploading (handleSubmit calls waiting in    *)
(* await processAttachments), isStreaming (from the chat store) and        *)
(* started (the calls of streamMessage made so far).                       *)

\* The calls of streamMessage a run counts up to.
MaxStarted == 3

\* What a step of the component leaves alone.
uiFrame ==
    <<settings, pc, fetches, status, wire, ending, pos, buffer, calls, errors,
      cancel, args, result, streams, service, server, chat>>

\* The texts of the textarea: empty, blank, and two messages.
MessageTexts == {<<>>, <<SP>>, <<"a">>, <<SP, "b">>}

\* The chat store's streamMessage: a stream is in progress from the call on.
streamMessage(u) ==
    [u EXCEPT !.isStreaming = TRUE, !.started = u.started + 1]

\* disabled={!message.trim() || isStreaming}
SendDisabled(u) == Trim(u.message) = <<>> \/ u.isStreaming

\* disabled={isStreaming}
QuickDisabled(u) == u.isStreaming

\* handleSubmit up to its first await, or to its end when there is none.
handleSubmit(u) ==
    IF Trim(u.message) = <<>> \/ ~u.currentChat
    THEN u
    ELSE LET cleared == [u EXCEPT !.message = <<>>]
         IN IF u.attachments > 0
            THEN [cleared EXCEPT !.uploading = u.uploading + 1]
            ELSE streamMessage(cleared)

InitSend ==
    /\ NoStream
    /\ pc = "mounted"
    /\ args = <<>>
    /\ result = <<>>
    /\ service = Constructed
    /\ server = <<>>
    /\ chat = <<>>
    /\ ui \in [message : {<<>>}, attachments : {0}, uploading : {0},
               isStreaming : {FALSE}, started : {0},
               currentChat : BOOLEAN]

\* onChange of the textarea.
TypeMessage ==
    /\ ui.started < MaxStarted
    /\ \E m \in MessageTexts : ui' = [ui EXCEPT !.message = m]
    /\ UNCHANGED uiFrame

\* handleFileSelect with one file.
SelectFile ==
    /\ ui.attachments = 0
    /\ ui' = [ui EXCEPT !.attachments = 1]
    /\ UNCHANGED uiFrame

\* removeAttachment.
RemoveAttachment ==
    /\ ui.attachments > 0
    /\ ui' = [ui EXCEPT !.attachments = ui.attachments - 1]
    /\ UNCHANGED uiFrame

\* The Send button (type="submit") is pressed: the form's onSubmit.
PressSend ==
    /\ ui.started + ui.uploading < MaxStarted
    /\ ~SendDisabled(ui)
    /\ ui' = handleSubmit(ui)
    /\ UNCHANGED uiFrame

\* Enter without Shift in the textarea: handleKeyDown calls handleSubmit.
PressEnter ==
    /\ ui.started + ui.uploading < MaxStarted
    /\ ui' = handleSubmit(ui)
    /\ UNCHANGED uiFrame

\* await processAttachments(attachments) is over (it catches its own
\* errors): handleSubmit goes on to streamMessage.
AttachmentsProcessed ==
    /\ ui.uploading > 0
    /\ ui' = streamMessage([ui EXCEPT !.uploading = ui.uploading - 1])
    /\ UNCHANGED uiFrame

\* One of the quick-action buttons is pressed.
PressQuickAction ==
    /\ ui.started + ui.uploading < MaxStarted
    /\ ui.currentChat
    /\ ~QuickDisabled(ui)
    /\ ui' = streamMessage(ui)
    /\ UNCHANGED uiFrame

\* The chat store: the stream in progress comes to its end.
StreamEnds ==
    /\ ui.isStreaming
    /\ ui' = [ui EXCEPT !.isStreaming = FALSE]
    /\ UNCHANGED uiFrame

NextSend ==
    \/ TypeMessage
    \/ SelectFile
    \/ RemoveAttachment
    \/ PressSend
    \/ PressEnter
    \/ AttachmentsProcessed
    \/ PressQuickAction
    \/ StreamEnds

SpecSend == InitSend /\ [][NextSend]_vars

\* C22: streamMessage is never started while isStreaming is true, whichever
\* way the message is sent.
C22_NoSendWhileStreaming ==
    [][ui.isStreaming => ui'.started = ui.started]_vars

---------------------------------------------------------------------------
(* PremiumChatInterface: voice recording (unnamed/part_001:64-93,          *)
(* 649-654).  ui holds pressed (the microphone button is held down),       *)
(* requests (startRecording calls waiting in await getUserMedia), current  *)
(* (mediaRecorderRef.current: "null", or the state of the MediaRecorder it *)
(* refers to), recording (the MediaRecorders that are recording),          *)
(* isRecording, processing (onstop handlers waiting in                     *)
(* await processAudioRecording) and presses (the presses so far).          *)

\* The presses of the microphone button a run counts up to.
MaxPresses == 4

InitVoice ==
    /\ NoStream
    /\ pc = "mounted"
    /\ args = <<>>
    /\ result = <<>>
    /\ service = Constructed
    /\ server = <<>>
    /\ chat = <<>>
    /\ ui = [pressed |-> FALSE, requests |-> 0, current |-> "null",
             recording |-> 0, isRecording |-> FALSE, processing |-> 0,
             presses |-> 0]

\* onMouseDown / onTouchStart: startRecording up to await getUserMedia.
PressMicrophone ==
    /\ ~ui.pressed
    /\ ui.presses < MaxPresses
    /\ ui' = [ui EXCEPT !.pressed = TRUE,
                        !.requests = ui.requests + 1,
                        !.presses = ui.presses + 1]
    /\ UNCHANGED uiFrame

\* getUserMedia resolves: startRecording makes a MediaRecorder, stores it in
\* mediaRecorderRef.current, starts it and sets isRecording.
MicrophoneGranted ==
    /\ ui.requests > 0
    /\ ui' = [ui EXCEPT !.requests = ui.requests - 1,
                        !.current = "recording",
                        !.recording = ui.recording + 1,
                        !.isRecording = TRUE]
    /\ UNCHANGED uiFrame

\* getUserMedia rejects: the catch shows a toast.
MicrophoneDenied ==
    /\ ui.requests > 0
    /\ ui' = [ui EXCEPT !.requests = ui.requests - 1]
    /\ UNCHANGED uiFrame

\* if (mediaRecorderRef.current && isRecording)
StopGuard(u) == u.current # "null" /\ u.isRecording

\* onMouseUp / onTouchEnd: stopRecording.
ReleaseMicrophone ==
    /\ ui.pressed
    /\ ui' = IF StopGuard(ui)
             THEN [ui EXCEPT !.pressed = FALSE,
                             !.current = "inactive",
                             !.recording = ui.recording - 1,
                             !.processing = ui.processing + 1,
                             !.isRecording = FALSE]
             ELSE [ui EXCEPT !.pressed = FALSE]
    /\ UNCHANGED uiFrame

\* mediaRecorder.onstop: await processAudioRecording(audioBlob) is over and
\* the tracks of the stream are stopped.
AudioProcessed ==
    /\ ui.processing > 0
    /\ ui' = [ui EXCEPT !.processing = ui.processing - 1]
    /\ UNCHANGED uiFrame

NextVoice ==
    \/ PressMicrophone
    \/ MicrophoneGranted
    \/ MicrophoneDenied
    \/ ReleaseMicrophone
    \/ AudioProcessed

SpecVoice == InitVoice /\ [][NextVoice]_vars

\* C23: once the button is released and every microphone request of
\* startRecording has completed, no MediaRecorder is recording and
\* isRecording is false.
C23_ReleaseStopsRecording ==
    ~ui.pressed /\ ui.requests = 0
        => ui.recording = 0 /\ ~ui.isRecording

---------------------------------------------------------------------------
(* A worker process of the server (next.config.js:250-338): connectDB,     *)
(* then the routes and server.listen, then the SIGTERM handler.  server    *)
(* holds pc, retries, attempts, failures, successes (of mongoose.connect), *)
(* waited (milliseconds spent in the setTimeout after failures), signals   *)
(* (SIGTERMs received), closeCallbacks (callbacks given to server.close    *)
(* and not yet run), mongoCallbacks (the same for mongoose.connection      *)
(* .close) and events (what has happened in the shutdown, in order).       *)

\* The SIGTERMs a run counts up to.
MaxSignals == 3

\* connectDB = async (retries = 5)
DefaultRetries == 5

\* setTimeout(resolve, 5000)
RetryDelay == 5000

\* What a step of the server process leaves alone.
serverFrame ==
    <<settings, pc, fetches, status, wire, ending, pos, buffer, calls, errors,
      cancel, args, result, streams, service, ui, chat>>

\* The loop goes round once more when the retries are used up.
LoopContinuesOnceMore(retries) == retries >= 0

\* while (retries)
LoopContinues(retries) == retries # 0

\* mongoose.connection.close is called by the handler itself, next to
\* server.close.
MongoCloseCalledAtSignal(s) == s.closeCallbacks + s.mongoCallbacks > 0

\* mongoose.connection.close has been called: only from the callback of
\* server.close.
MongoCloseCalled(s) == s.mongoCallbacks > 0

InitServer ==
    /\ NoStream
    /\ pc = "worker"
    /\ args = <<>>
    /\ result = <<>>
    /\ service = Constructed
    /\ ui = <<>>
    /\ chat = <<>>
    /\ server = [pc |-> IF LoopContinues(DefaultRetries)
                        THEN "connecting" ELSE "returned",
                 retries |-> DefaultRetries, attempts |-> 0, failures |-> 0,
                 successes |-> 0, waited |-> 0, signals |-> 0,
                 closeCallbacks |-> 0, mongoCallbacks |-> 0, events |-> <<>>]

\* await mongoose.connect(...) resolves: break, and connectDB returns.
ConnectSucceeds ==
    /\ server.pc = "connecting"
    /\ server' = [server EXCEPT !.attempts = server.attempts + 1,
                                !.successes = server.successes + 1,
                                !.pc = "returned"]
    /\ UNCHANGED serverFrame

\* await mongoose.connect(...) rejects: the catch takes one retry off and
\* starts the timer.
ConnectFails ==
    /\ server.pc = "connecting"
    /\ server' = [server EXCEPT !.attempts = server.attempts + 1,
                                !.failures = server.failures + 1,
                                !.retries = server.retries - 1,
                                !.pc = "waiting"]
    /\ UNCHANGED serverFrame

\* The timer fires: the loop tests retries again.
WaitOver ==
    /\ server.pc = "waiting"
    /\ server' = [server EXCEPT !.waited = server.waited + RetryDelay,
                                !.pc = IF LoopContinues(server.retries)
                                       THEN "connecting" ELSE "returned"]
    /\ UNCHANGED serverFrame

\* After await connectDB(): the routes, server.listen(PORT, ...) and
\* process.on('SIGTERM', ...).
Listen ==
    /\ server.pc = "returned"
    /\ server' = [server EXCEPT !.pc = "listening"]
    /\ UNCHANGED serverFrame

\* SIGTERM before the handler is registered: the signal's default action
\* ends the process.
SigtermBeforeHandler ==
    /\ server.pc \in {"connecting", "waiting", "returned"}
    /\ server' = [server EXCEPT !.pc = "killed",
                                !.signals = server.signals + 1]
    /\ UNCHANGED serverFrame

\* The SIGTERM handler: server.close(callback).
Sigterm ==
    /\ server.pc = "listening"
    /\ server.signals < MaxSignals
    /\ server' = [server EXCEPT
                    !.signals = server.signals + 1,
                    !.closeCallbacks = server.closeCallbacks + 1,
                    !.events = server.events \o <<"SIGTERM received">>]
    /\ UNCHANGED serverFrame

\* The HTTP server has closed: the callbacks given to server.close run, and
\* each calls mongoose.connection.close(false, callback).
ServerClosed ==
    /\ server.pc = "listening"
    /\ server.closeCallbacks > 0
    /\ server' = [server EXCEPT
                    !.mongoCallbacks =
                        server.mongoCallbacks + server.closeCallbacks,
                    !.closeCallbacks = 0,
                    !.events = server.events \o <<"server closed">>]
    /\ UNCHANGED serverFrame

\* The MongoDB connection has closed: its callback calls redisClient.quit()
\* (without waiting for it) and process.exit(0).
MongoClosed ==
    /\ server.pc = "listening"
    /\ MongoCloseCalled(server)
    /\ server' = [server EXCEPT
                    !.pc = "exited",
                    !.events = server.events
                               \o <<"mongo closed", "redis quit", "exit 0">>]
    /\ UNCHANGED serverFrame

NextServer ==
    \/ ConnectSucceeds
    \/ ConnectFails
    \/ WaitOver
    \/ Listen
    \/ SigtermBeforeHandler
    \/ Sigterm
    \/ ServerClosed
    \/ MongoClosed

\* A connection attempt settles, a timer fires, and the start-up code after
\* connectDB runs.
SpecServer ==
    /\ InitServer
    /\ [][NextServer]_vars
    /\ WF_vars(ConnectSucceeds \/ ConnectFails)
    /\ WF_vars(WaitOver)
    /\ WF_vars(Listen)

\* connectDB is over: it has returned, or the process was ended from
\* outside before it could.
ConnectOver == server.pc # "connecting" /\ server.pc # "waiting"

\* C24 (what is always true): at most 5 connection attempts, none after a
\* success, 5 seconds waited for each failed attempt, and after 5 failures
\* connectDB has returned with no connection and start-up goes on.
C24_Bounded ==
    /\ server.attempts <= 5
    /\ server.successes <= 1
    /\ server.attempts = server.failures + server.successes
    /\ server.successes = 1 => server.pc \notin {"connecting", "waiting"}
    /\ server.pc = "waiting" => server.waited = 5000 * (server.failures - 1)
    /\ server.pc \notin {"waiting", "killed"}
          => server.waited = 5000 * server.failures
    /\ server.failures = 5 /\ server.pc # "waiting"
          => server.pc \in {"returned", "listening", "exited", "killed"}

\* C24: connectDB makes at most 5 attempts, none after the first success,
\* waits 5 seconds after each failure, and always returns normally; after 5
\* failures too, and start-up then continues to listen with no database
\* connection.
C24_ConnectDBTerminates ==
    /\ []C24_Bounded
    /\ <>ConnectOver
    /\ [](server.pc = "returned" => <>(server.pc \in {"listening", "killed"}))

\* Five attempts failed, each was waited for, and the server listens.
C24_Witness ==
    /\ server.pc = "listening"
    /\ server.failures = 5
    /\ server.successes = 0
    /\ server.waited = 25000

\* Where an event first happens in the shutdown; 0 if it has not.
FirstEvent(e) ==
    IF \E i \in 1..Len(server.events) : server.events[i] = e
    THEN CHOOSE i \in 1..Len(server.events) :
            /\ server.events[i] = e
            /\ \A j \in 1..(i - 1) : server.events[j] # e
    ELSE 0

\* C25: on SIGTERM the server finishes closing, then the MongoDB connection
\* is closed, then the Redis client is quit, then the process exits with
\* code 0; there is no exit through the handler before the close callbacks
\* of the server and of MongoDB have run.
C25_ShutdownOrder ==
    /\ server.pc = "exited" <=> FirstEvent("exit 0") # 0
    /\ FirstEvent("exit 0") # 0 =>
          /\ FirstEvent("exit 0") = Len(server.events)
          /\ 0 < FirstEvent("SIGTERM received")
          /\ FirstEvent("SIGTERM received") < FirstEvent("server closed")
          /\ FirstEvent("server closed") < FirstEvent("mongo closed")
          /\ FirstEvent("mongo closed") < FirstEvent("redis quit")
          /\ FirstEvent("redis quit") < FirstEvent("exit 0")
    /\ FirstEvent("mongo closed") # 0 => FirstEvent("server closed") # 0

\* The process has exited after two SIGTERMs.
C25_Witness ==
    /\ server.pc = "exited"
    /\ server.signals = 2
    /\ server.events[Len(server.events)] = "exit 0"

---------------------------------------------------------------------------
(* A chat document (unnamed/part_000:68-317).  chat holds the fields the   *)
(* schema's middleware and methods use, and two notes about the past:      *)
(* lastOp (the operation that ran last) and alwaysPrivate (visibility has  *)
(* never been anything but 'private').                                     *)

\* The longest list of messages of a chat.
MaxChatMessages == 2

\* What an operation on the chat document leaves alone.
chatFrame ==
    <<settings, pc, fetches, status, wire, ending, pos, buffer, calls, errors,
      cancel, args, result, streams, service, ui, server>>

\* enum: ['private', 'shared', 'public', 'unlisted']
Visibilities == {"private", "shared", "public", "unlisted"}

\* What randomBytes(16).toString('hex') can give.
ShareTokens == {"token1", "token2"}

\* The owner (chat.userId) and the other users.
Owner == "owner"
Users == {Owner, "u1", "u2"}

\* A new document: the schema's defaults, with the visibility it is made
\* with.
NewChat(v) ==
    [userId |-> Owner, title |-> "New Chat", visibility |-> v,
     shareToken |-> "none", messages |-> <<>>, participants |-> <<>>,
     tokenCount |-> [prompt |-> 0, completion |-> 0, total |-> 0],
     messageCount |-> [user |-> 0, assistant |-> 0, total |-> 0],
     lastMessageAt |-> 0, clock |-> 0,
     lastOp |-> "new", alwaysPrivate |-> (v = "private")]

\* The messages addMessage is given: role and token counts.
MessageData ==
    {[role |-> "user", tokens |-> [prompt |-> 3, completion |-> 0]],
     [role |-> "assistant", tokens |-> [prompt |-> 0, completion |-> 5]],
     [role |-> "system", tokens |-> [prompt |-> 0, completion |-> 0]]}

\* messages.reduce((sum, msg) => sum + (msg.tokens.prompt || 0), 0)
RECURSIVE SumPrompt(_)
SumPrompt(msgs) ==
    IF msgs = <<>> THEN 0
    ELSE SumPrompt(SubSeq(msgs, 1, Len(msgs) - 1))
         + msgs[Len(msgs)].tokens.prompt

\* messages.reduce((sum, msg) => sum + (msg.tokens.completion || 0), 0)
RECURSIVE SumCompletion(_)
SumCompletion(msgs) ==
    IF msgs = <<>> THEN 0
    ELSE SumCompletion(SubSeq(msgs, 1, Len(msgs) - 1))
         + msgs[Len(msgs)].tokens.completion

\* messages.filter(msg => msg.role === role).length
CountRole(msgs, role) ==
    Cardinality({i \in 1..Len(msgs) : msgs[i].role = role})

\* Only the user and assistant messages are counted in the total.
MessageTotalByRole(msgs) ==
    CountRole(msgs, "user") + CountRole(msgs, "assistant")

\* this.messageCount.total = this.messages.length
MessageTotal(msgs) == Len(msgs)

\* A token is generated at every save of a chat that is not private.
NeedsShareTokenAlways(c) == c.visibility # "private"

\* if (this.visibility !== 'private' && !this.shareToken)
NeedsShareToken(c) == c.visibility # "private" /\ c.shareToken = "none"

InitChat ==
    /\ NoStream
    /\ pc = "document"
    /\ args = <<>>
    /\ result = <<>>
    /\ service = Constructed
    /\ ui = <<>>
    /\ server = <<>>
    /\ chat \in {NewChat(v) : v \in Visibilities}

\* chat.visibility = v
SetVisibility ==
    /\ \E v \in Visibilities \ {chat.visibility} :
        chat' = [chat EXCEPT !.visibility = v,
                             !.alwaysPrivate = chat.alwaysPrivate
                                               /\ v = "private",
                             !.lastOp = "visibility"]
    /\ UNCHANGED chatFrame

\* chatSchema.methods.addMessage
AddMessage ==
    /\ Len(chat.messages) < MaxChatMessages
    /\ \E d \in MessageData :
        chat' = [chat EXCEPT
                    !.messages = chat.messages
                                 \o <<[role |-> d.role, tokens |-> d.tokens,
                                       createdAt |-> chat.clock + 1]>>,
                    !.clock = chat.clock + 1,
                    !.title = IF chat.messages = <<>> /\ d.role = "user"
                              THEN "generated" ELSE chat.title,
                    !.lastOp = "addMessage"]
    /\ UNCHANGED chatFrame

\* chatSchema.pre('save')
Save ==
    /\ \E t \in ShareTokens :
        chat' = [chat EXCEPT
                    !.tokenCount =
                        [prompt |-> SumPrompt(chat.messages),
                         completion |-> SumCompletion(chat.messages),
                         total |-> SumPrompt(chat.messages)
                                   + SumCompletion(chat.messages)],
                    !.messageCount =
                        [user |-> CountRole(chat.messages, "user"),
                         assistant |-> CountRole(chat.messages, "assistant"),
                         total |-> MessageTotal(chat.messages)],
                    !.lastMessageAt =
                        IF Len(chat.messages) > 0
                        THEN chat.messages[Len(chat.messages)].createdAt
                        ELSE chat.lastMessageAt,
                    !.shareToken = IF NeedsShareToken(chat)
                                   THEN t ELSE chat.shareToken,
                    !.lastOp = "save"]
    /\ UNCHANGED chatFrame

NextChat ==
    \/ SetVisibility
    \/ AddMessage
    \/ Save

SpecChat == InitChat /\ [][NextChat]_vars

\* C26: after a save of a chat that is not private the chat has a share
\* token; once set, the token is never changed or cleared again; a chat
\* that has always been private has none.
C26_ShareTokenSetOnceAndKept ==
    [][/\ chat'.lastOp = "save" /\ chat'.visibility # "private"
            => chat'.shareToken \in ShareTokens
       /\ chat.shareToken # "none" => chat'.shareToken = chat.shareToken
       /\ chat'.alwaysPrivate => chat'.shareToken = "none"]_vars

\* A shared chat was made private again and saved: it keeps its token.
C26_Witness ==
    /\ chat.lastOp = "save"
    /\ chat.visibility = "private"
    /\ ~chat.alwaysPrivate
    /\ chat.shareToken = "token2"

\* The tokens of one kind of the messages from the i-th on.
RECURSIVE TokensFrom(_, _)
TokensFrom(i, kind) ==
    IF i > Len(chat.messages) THEN 0
    ELSE chat.messages[i].tokens[kind] + TokensFrom(i + 1, kind)

\* The counters agree with the messages.
SavedAgree ==
    /\ chat.tokenCount.prompt
          = TokensFrom(1, "prompt")
    /\ chat.tokenCount.completion
          = TokensFrom(1, "completion")
    /\ chat.tokenCount.total
          = chat.tokenCount.prompt + chat.tokenCount.completion
    /\ chat.messageCount.total = Len(chat.messages)
    /\ chat.messageCount.user
          = Cardinality({i \in DOMAIN chat.messages :
                            chat.messages[i].role = "user"})
    /\ chat.messageCount.assistant
          = Cardinality({i \in DOMAIN chat.messages :
                            chat.messages[i].role = "assistant"})
    /\ chat.messageCount.user + chat.messageCount.assistant
          <= chat.messageCount.total

\* C29: right after every save the counters agree with the messages, and
\* addMessage leaves the counters as they were.
C29_CountersAgreeAfterSave ==
    [][/\ chat'.lastOp = "save" => SavedAgree'
       /\ chat'.lastOp = "addMessage"
            => /\ chat'.tokenCount = chat.tokenCount
               /\ chat'.messageCount = chat.messageCount]_vars

\* A chat with a user and a system message has been saved.
C29_Witness ==
    /\ chat.lastOp = "save"
    /\ Len(chat.messages) = 2
    /\ chat.messages[1].role = "user"
    /\ chat.messages[2].role = "system"
    /\ chat.tokenCount = [prompt |-> 3, completion |-> 0, total |-> 3]
    /\ chat.messageCount = [user |-> 1, assistant |-> 0, total |-> 2]

---------------------------------------------------------------------------
(* The participants of a chat and what they may do                         *)
(* (unnamed/part_000:283-317).  chat.last is the call that ran last.       *)

\* The participants that are ever added to a chat (each with a new
\* joinedAt).
MaxJoins == 3

\* enum: ['viewer', 'editor', 'commenter']
ParticipantRoles == {"viewer", "editor", "commenter"}

\* find never finds the user.
FindParticipantNever(ps, u) == 0

\* participants.find(p => p.userId.toString() === userId.toString()): the
\* place of the first entry of the user, 0 when there is none.
FindParticipant(ps, u) ==
    IF \E i \in 1..Len(ps) : ps[i].userId = u
    THEN CHOOSE i \in 1..Len(ps) :
            /\ ps[i].userId = u
            /\ \A j \in 1..(i - 1) : ps[j].userId # u
    ELSE 0

\* participants.filter(p => p.userId.toString() !== userId.toString())
RECURSIVE WithoutParticipant(_, _)
WithoutParticipant(ps, u) ==
    IF ps = <<>> THEN <<>>
    ELSE (IF Head(ps).userId # u THEN <<Head(ps)>> ELSE <<>>)
         \o WithoutParticipant(Tail(ps), u)

\* chatSchema.methods.canEdit: true, false, or undefined when the user is
\* neither the owner nor a participant.
canEdit(c, u) ==
    IF c.userId = u THEN "true"
    ELSE IF FindParticipant(c.participants, u) = 0 THEN "undefined"
    ELSE IF c.participants[FindParticipant(c.participants, u)].role = "editor"
    THEN "true" ELSE "false"

\* Only a public chat can be viewed.
canViewPublicOnly(c, u) == c.visibility = "public"

\* chatSchema.methods.canView
canView(c, u) ==
    IF c.visibility = "public" THEN TRUE
    ELSE IF c.userId = u THEN TRUE
    ELSE FindParticipant(c.participants, u) # 0

\* A value is truthy.
Truthy(v) == v = "true"

InitAccess ==
    /\ NoStream
    /\ pc = "document"
    /\ args = <<>>
    /\ result = <<>>
    /\ service = Constructed
    /\ ui = <<>>
    /\ server = <<>>
    /\ chat \in {[NewChat(v) EXCEPT !.lastOp = [op |-> "new"]] :
                    v \in Visibilities}

\* chatSchema.methods.addParticipant
AddParticipant ==
    /\ \E u \in Users, r \in ParticipantRoles :
        LET existing == FindParticipant(chat.participants, u)
        IN /\ existing = 0 => chat.clock < MaxJoins
           /\ chat' = [chat EXCEPT
                        !.participants =
                            IF existing # 0
                            THEN [chat.participants EXCEPT
                                    ![existing].role = r]
                            ELSE chat.participants
                                 \o <<[userId |-> u, role |-> r,
                                       joinedAt |-> chat.clock + 1]>>,
                        !.clock = IF existing # 0 THEN chat.clock
                                  ELSE chat.clock + 1,
                        !.lastOp = [op |-> "addParticipant", userId |-> u,
                                    role |-> r]]
    /\ UNCHANGED chatFrame

\* chatSchema.methods.removeParticipant
RemoveParticipant ==
    /\ \E u \in Users :
        chat' = [chat EXCEPT
                    !.participants = WithoutParticipant(chat.participants, u),
                    !.lastOp = [op |-> "removeParticipant", userId |-> u]]
    /\ UNCHANGED chatFrame

\* chat.visibility = v
ChangeVisibility ==
    /\ \E v \in Visibilities \ {chat.visibility} :
        chat' = [chat EXCEPT
                    !.visibility = v,
                    !.alwaysPrivate = chat.alwaysPrivate /\ v = "private",
                    !.lastOp = [op |-> "visibility"]]
    /\ UNCHANGED chatFrame

NextAccess ==
    \/ AddParticipant
    \/ RemoveParticipant
    \/ ChangeVisibility

SpecAccess == InitAccess /\ [][NextAccess]_vars

\* No two entries of a participants list have the same userId.
NoDuplicates(ps) ==
    \A i, j \in 1..Len(ps) : ps[i].userId = ps[j].userId => i = j

\* The user has an entry in the participants list.
IsParticipant(ps, u) == \E i \in 1..Len(ps) : ps[i].userId = u

\* C27: the participants list never holds two entries of one user;
\* addParticipant of a user already in the list changes only that entry's
\* role, addParticipant of a new user appends one entry, and
\* removeParticipant(u) leaves no entry of u and the others as they were.
C27_ParticipantsStayUnique ==
    [][LET ps == chat.participants
           qs == chat'.participants
           l == chat'.lastOp
           Others(p) == p.userId # l.userId
       IN /\ NoDuplicates(qs)
          /\ l.op = "addParticipant" /\ IsParticipant(ps, l.userId)
                => /\ Len(qs) = Len(ps)
                   /\ \A i \in 1..Len(ps) :
                        /\ qs[i].userId = ps[i].userId
                        /\ qs[i].joinedAt = ps[i].joinedAt
                        /\ qs[i].role = IF ps[i].userId = l.userId
                                        THEN l.role ELSE ps[i].role
          /\ l.op = "addParticipant" /\ ~IsParticipant(ps, l.userId)
                => /\ Len(qs) = Len(ps) + 1
                   /\ SubSeq(qs, 1, Len(ps)) = ps
                   /\ qs[Len(qs)].userId = l.userId
                   /\ qs[Len(qs)].role = l.role
          /\ l.op = "removeParticipant"
                => /\ ~IsParticipant(qs, l.userId)
                   /\ qs = SelectSeq(ps, Others)]_vars

\* A user who joined first has been given another role by addParticipant:
\* the entry is where it was, with the joinedAt it had.
C27_Witness ==
    /\ chat.lastOp = [op |-> "addParticipant", userId |-> "u1",
                      role |-> "editor"]
    /\ chat.participants
          = <<[userId |-> "u1", role |-> "editor", joinedAt |-> 1],
              [userId |-> "u2", role |-> "viewer", joinedAt |-> 2]>>

\* C28: who can edit can view; a user who is neither the owner nor a
\* participant cannot edit and can view only a public chat; a user other
\* than the owner cannot edit after removeParticipant of that user.
C28_EditImpliesView ==
    \A u \in Users :
        /\ Truthy(canEdit(chat, u)) => canView(chat, u) = TRUE
        /\ u # chat.userId /\ ~IsParticipant(chat.participants, u)
              => /\ ~Truthy(canEdit(chat, u))
                 /\ canView(chat, u) = (chat.visibility = "public")
        /\ chat.lastOp = [op |-> "removeParticipant", userId |-> u]
              /\ u # chat.userId
              => ~Truthy(canEdit(chat, u))

\* An editor of a shared chat has been removed while another stays.
C28_Witness ==
    /\ chat.lastOp = [op |-> "removeParticipant", userId |-> "u1"]
    /\ chat.visibility = "shared"
    /\ chat.clock = 2
    /\ chat.participants
          = <<[userId |-> "u2", role |-> "editor", joinedAt |-> 2]>>
    /\ ~canView(chat, "u1")
    /\ canEdit(chat, "u2") = "true"

---------------------------------------------------------------------------
(* The model table and the rate table together. *)

\* C30: a model validateSettings accepts for openai or anthropic has a rate,
\* so with positive token counts its estimated cost is never 0.
C30_SupportedModelsHaveRates ==
    pc = "returned"
        /\ args \in CostArgs
        /\ args.provider \in {"openai", "anthropic"}
        /\ validateSettings(SettingsObject({"provider", "model"},
                                           args.provider, args.model, 0, 0))
              = <<>>
        /\ args.inputTokens > 0
        /\ args.outputTokens > 0
    => result # 0

=============================================================================
